---- MODULE Spec2Model ----
(***************************************************************************)
(* A model of the chat turn of kaindraa/system-llm-backend: the SSE        *)
(* endpoint send_message.generate_stream (app/api/v1/endpoints/chat.py),   *)
(* ChatService.send_message_stream (app/services/chat/chat_service.py) and *)
(* the agentic tool-calling loop agenerate_stream_with_tools of the four   *)
(* providers (app/services/llm/*_provider.py).                             *)
(*                                                                         *)
(* One turn is one asyncio task.  The task runs synchronously between two  *)
(* suspension points; it is suspended while an event it yielded is handed  *)
(* to the transport and while it awaits a provider response.  A caller's   *)
(* disconnect is an event of the environment: it reaches the task as a     *)
(* CancelledError / GeneratorExit at the suspension point the task is at   *)
(* or reaches next.                                                        *)
(*                                                                         *)
(* Text is a sequence of one-character strings; timestamps (created_at)    *)
(* and the texts of log lines are not modelled.                            *)
(*                                                                         *)
(* The retrieval library (app/services/rag/rag_service.py), the two tools  *)
(* built on it (app/services/rag/tools.py), the direct search endpoint     *)
(* (app/api/v1/endpoints/rag.py) and the stored configuration              *)
(* (app/services/rag_config_service.py) are modelled as operators on a     *)
(* corpus of chunks, each with its cosine similarity to the question in    *)
(* hundredths; RagSpec calls them one at a time and ConfigSpec runs turns  *)
(* while an administrator changes the stored iteration cap.                *)
(*                                                                         *)
(* OverlapSpec runs two requests on one session side by side, each with    *)
(* the row it loaded through its own database session (get_db); CacheSpec  *)
(* is the provider cache of the LLMService shared by all requests          *)
(* (app/services/llm/llm_service.py).                                      *)
(***************************************************************************)
EXTENDS Integers, Sequences, FiniteSets, TLC

\* ------------------------------------------------------------------ bounds

\* The iteration cap of the loop (the parameter max_iterations of
\* agenerate_stream_with_tools; send_message_stream never passes it, so every
\* turn runs with the parameter's default).  The model is parametric in it.
max_iterations == 2

\* A model response requests at most MaxCalls tool calls.
MaxCalls == 2

\* A turn is submitted to a session holding at most MaxHistory messages.
MaxHistory == 3

\* the longest list of chunks handed to extract_sources
MaxChunks == 3

\* ------------------------------------------------------------------ data

SessionId == "s1"
Owner     == "u1"
SessionIds == {"s1", "s2"}
UserIds    == {"u1", "u2"}

\* SessionStatus, plus the string analyze_session stores
Statuses == {"active", "completed", "analyzed"}

Providers == {"openai", "anthropic", "google", "openrouter"}

\* A model name is the set of family markers its lower-cased name contains.
ModelNamesOf(p) ==
  IF p = "openrouter" THEN {{"llama"}, {"phi"}, {"phi", "llama"}, {}} ELSE {{}}

\* The session's prompt fields that are set (truthy).
PromptConfigs == {{}, {"prompt_general", "task", "prompt_id"}}

\* Texts a model can answer with: characters, " " is whitespace.
Texts == {<<>>, <<"a", " ", " ", "b">>}
UserTexts == {<<"q">>}

\* Sources a semantic search can return: (document_id, page) pairs.

NoMessage == [role |-> "none", content |-> <<>>, sources |-> <<>>]

Message(role, content, sources) ==
  [role |-> role, content |-> content, sources |-> sources]

\* ------------------------------------------------------------------ text

RECURSIVE Concat(_)
Concat(ss) == IF ss = <<>> THEN <<>> ELSE Head(ss) \o Concat(Tail(ss))

IsSpace(c) == c \in {" ", "\n", "\t"}

\* str.split(): the maximal runs of non-whitespace characters
RECURSIVE SplitFrom(_, _)
SplitFrom(s, cur) ==
  IF s = <<>>
  THEN IF cur = <<>> THEN <<>> ELSE <<cur>>
  ELSE IF IsSpace(Head(s))
       THEN (IF cur = <<>> THEN <<>> ELSE <<cur>>) \o SplitFrom(Tail(s), <<>>)
       ELSE SplitFrom(Tail(s), Append(cur, Head(s)))

Split(s) == SplitFrom(s, <<>>)

\* the word tokens the tool-calling path streams: word + " " except the last
WordTokens(content) ==
  LET words == Split(content)
  IN  [i \in 1..Len(words) |->
         IF i < Len(words) THEN Append(words[i], " ") ELSE words[i]]

\* the chunks of a natively streamed completion (chunks with no content are
\* skipped by agenerate_stream)
NativeChunks(t) ==
  IF t = <<>> THEN <<>>
  ELSE IF Len(t) = 1 THEN <<t>>
  ELSE <<SubSeq(t, 1, 1), SubSeq(t, 2, Len(t))>>

MaxIterationsNotice == <<"[Tool calling max iterations reached]">>


\* ------------------------------------------------------------------ state

VARIABLES
  \* the chat_session row (persisted)
  messages, total_messages, status,
  \* fixed per session: the model row and the prompt fields
  provider, model_name, prompt_fields,
  \* the turn (one asyncio task)
  pc, suspended, disconnected, use_rag,
  system_message, user_message, conversation_context,
  langchain_messages, iteration, tool_calls, next_id, chunks,
  full_content, sources_list, assistant_message,
  \* what the turn has emitted and issued
  provider_events, events, requests, tool_runs,
  \* observation: the log when the turn started, the history sent with the
  \* last tool-bound request, the failed tool calls, the state at disconnect,
  \* and the (session_id, user_id) the turn was submitted with
  request, log0, last_request, bad_calls, failed_runs, at_disconnect,
  \* observation: the content of the last plain-text response of the model
  answered,
  \* the ChatConfig row, the document chunks with their similarity to the
  \* query, and the last call of the retrieval library with what it gave
  config, corpus, lib_op, lib_out,
  \* the requests that run a turn on the session side by side, each with the
  \* ORM object of its own database session; the provider cache of the
  \* shared LLMService and the last get_provider call with what it gave
  turns, providers, got

db_vars   == <<messages, total_messages, status>>
cfg_vars  == <<provider, model_name, prompt_fields>>
turn_vars == <<pc, suspended, disconnected, use_rag, system_message, user_message,
               conversation_context, langchain_messages, iteration, tool_calls,
               next_id, chunks, full_content, sources_list, assistant_message>>
out_vars  == <<provider_events, events, requests, tool_runs>>
obs_vars  == <<request, log0, last_request, bad_calls, failed_runs, at_disconnect,
               answered>>
lib_vars  == <<config, corpus, lib_op, lib_out>>
svc_vars  == <<turns, providers, got>>
vars == <<db_vars, cfg_vars, turn_vars, out_vars, obs_vars, lib_vars, svc_vars>>

Ended == {"done", "error", "cancelled"}
AtRest == {"idle"} \cup Ended

\* ------------------------------------------------------------------ context

\* _build_conversation_context: the sections of the system prompt, joined
\* with blank lines
Sections(fields) ==
  (IF "prompt_general" \in fields THEN << <<"# General Prompt">> >> ELSE <<>>)
  \o (IF fields \cap {"task", "persona", "mission_objective"} # {}
      THEN << <<"Student Learning Profile">>
              \o (IF "task" \in fields THEN <<"# Task">> ELSE <<>>)
              \o (IF "persona" \in fields THEN <<"# Persona">> ELSE <<>>)
              \o (IF "mission_objective" \in fields
                  THEN <<"# Mission Objective">> ELSE <<>>) >>
      ELSE <<>>)
  \o (IF "prompt_id" \in fields THEN << <<"# Specific Prompt">> >> ELSE <<>>)

RECURSIVE JoinSections(_)
JoinSections(secs) ==
  IF secs = <<>> THEN <<>>
  ELSE IF Len(secs) = 1 THEN Head(secs)
  ELSE Head(secs) \o <<"\n\n">> \o JoinSections(Tail(secs))

SystemContent(fields) == JoinSections(Sections(fields))

Ctx(role, content) == [role |-> role, content |-> content]

build_conversation_context(fields, log) ==
  (IF SystemContent(fields) # <<>>
   THEN <<Ctx("system", SystemContent(fields))>> ELSE <<>>)
  \o [i \in 1..Len(log) |-> Ctx(log[i].role, log[i].content)]

\* send_message_stream: the system message taken from the head of the context
SystemMessageOf(context) ==
  IF context # <<>> /\ context[1].role = "system"
  THEN Message("system", context[1].content, <<>>)
  ELSE NoMessage

\* a variant that stores the system message with every turn
AppendExchangeAlwaysSystem(log, sys, user, assistant) ==
  (IF sys # NoMessage THEN Append(log, sys) ELSE log) \o <<user, assistant>>

\* send_message_stream: the messages the turn appends to session.messages
AppendExchange(log, sys, user, assistant) ==
  (IF sys # NoMessage /\ Len(log) = 0 THEN Append(log, sys) ELSE log)
  \o <<user, assistant>>

\* send_message_stream: the sources of the assistant message, de-duplicated
\* by (document_id, page)
RECURSIVE UniqueFrom(_, _)
UniqueFrom(sources, seen) ==
  IF sources = <<>> THEN <<>>
  ELSE LET key == <<Head(sources).document_id, Head(sources).page>>
       IN  IF key \in seen THEN UniqueFrom(Tail(sources), seen)
           ELSE <<Head(sources)>> \o UniqueFrom(Tail(sources), seen \cup {key})

UniqueSources(rag, sources) ==
  IF rag /\ sources # <<>> THEN UniqueFrom(sources, {}) ELSE <<>>

\* get_session: the row with that id that belongs to that user
SessionFound(sid, uid) == sid = SessionId /\ uid = Owner

\* a variant that rejects only the sessions marked completed
IsActiveUnlessCompleted(st) == st # "completed"

\* send_message_stream: session.status != SessionStatus.ACTIVE is rejected
IsActive(st) == st = "active"

\* a variant whose failed commit leaves the new row behind
CommittedAnyway(ok, old, new) == new

\* the database after db.commit(): the new row, or the old one when the
\* commit raised
Committed(ok, old, new) == IF ok THEN new ELSE old


\* ------------------------------------------------------------------ retrieval

\* Similarities and thresholds are in hundredths (0.91 is 91).

\* a row of document_chunk joined with its document
Chunk(doc, page, sim, st) ==
  [document_id |-> doc, page |-> page, similarity_score |-> sim, status |-> st]

\* the 0.05 by which the tool relaxes the configured threshold
ThresholdRelaxation == 5

\* the largest top_k POST /rag/search accepts
EndpointMaxTopK == 20

Min(a, b) == IF a <= b THEN a ELSE b
Max(a, b) == IF a >= b THEN a ELSE b

\* ORDER BY dc.embedding <=> query ASC: the rows by descending similarity
\* (rows of equal similarity keep their order in the table)
RECURSIVE InsertBySimilarity(_, _)
InsertBySimilarity(row, rows) ==
  IF rows = <<>> THEN <<row>>
  ELSE IF row.similarity_score > Head(rows).similarity_score
       THEN <<row>> \o rows
       ELSE <<Head(rows)>> \o InsertBySimilarity(row, Tail(rows))

RECURSIVE OrderBySimilarity(_)
OrderBySimilarity(rows) ==
  IF rows = <<>> THEN <<>>
  ELSE InsertBySimilarity(rows[Len(rows)],
                          OrderBySimilarity(SubSeq(rows, 1, Len(rows) - 1)))

\* a variant without the WHERE clause on the document's status
AnyStatus(rows) == rows

\* WHERE d.status = 'PROCESSED'
Processed(rows) == SelectSeq(rows, LAMBDA r : r.status = "PROCESSED")

\* LIMIT :limit
Limit(rows, k) == SubSeq(rows, 1, Min(k, Len(rows)))

\* "if similarity_threshold > 0 and similarity < similarity_threshold: continue"
KeepsRow(sim, t) == ~(t > 0 /\ sim < t)

\* RAGService.semantic_search, the query embedded: the rows it returns
semantic_search(rows, top_k, similarity_threshold) ==
  SelectSeq(Limit(OrderBySimilarity(Processed(rows)), top_k),
            LAMBDA r : KeepsRow(r.similarity_score, similarity_threshold))

Source(chunk) ==
  [document_id |-> chunk.document_id, page |-> chunk.page,
   similarity_score |-> chunk.similarity_score]

\* a variant that tracks the documents seen, not the (document, page) pairs
RECURSIVE ExtractByDocument(_, _)
ExtractByDocument(retrieved, seen) ==
  IF retrieved = <<>> THEN <<>>
  ELSE IF Head(retrieved).document_id \in seen
       THEN ExtractByDocument(Tail(retrieved), seen)
       ELSE <<Source(Head(retrieved))>>
            \o ExtractByDocument(Tail(retrieved), seen \cup {Head(retrieved).document_id})

\* RAGService.extract_sources: the loop, with the set of pairs seen
RECURSIVE ExtractFrom(_, _)
ExtractFrom(retrieved, seen) ==
  IF retrieved = <<>> THEN <<>>
  ELSE LET key == <<Head(retrieved).document_id, Head(retrieved).page>>
       IN  IF key \in seen THEN ExtractFrom(Tail(retrieved), seen)
           ELSE <<Source(Head(retrieved))>> \o ExtractFrom(Tail(retrieved), seen \cup {key})

\* a variant of extract_sources that lists each document once
extract_sources_by_document(retrieved) == ExtractByDocument(retrieved, {})

extract_sources(retrieved) == ExtractFrom(retrieved, {})

\* ------------------------------------------------------------------ tools

\* the ChatConfig singleton (id = 1)
ChatConfig(dk, mk, thr, iters) ==
  [default_top_k |-> dk, max_top_k |-> mk, similarity_threshold |-> thr,
   tool_calling_max_iterations |-> iters]

\* the methods class RAGService defines
RAGServiceMethods ==
  {"generate_embedding", "semantic_search", "format_rag_context",
   "extract_sources", "get_user_documents", "health_check"}

\* self.rag_service.get_config(): the attribute lookup raises AttributeError
\* when the class defines no such method
GetConfigRaises == "get_config" \notin RAGServiceMethods

\* an argument the model passes: absent, or a value of some kind
NoArg == [kind |-> "none", value |-> 0]
IntArg(n) == [kind |-> "int", value |-> n]
TextArg == [kind |-> "text", value |-> 0]

\* a call of the Retriever
RetrieverCall(k, t) == [top_k |-> k, min_similarity |-> t]

\* what a tool executor does: it raises, or it returns a dictionary
Raised(text) ==
  [raised |-> TRUE, error |-> text, results |-> <<>>, sources |-> <<>>,
   count |-> 0, retriever_calls |-> <<>>]
Returned(results, sources, error, calls) ==
  [raised |-> FALSE, error |-> error, results |-> results, sources |-> sources,
   count |-> Len(results), retriever_calls |-> calls]

\* the "except Exception" of semantic_search_impl: the error as data
ErrorResult(text, calls) == Returned(<<>>, <<>>, text, calls)

\* top_k = max(1, min(int(top_k), max_top_k))
ClampTopK(top_k, max_top_k) == Max(1, Min(top_k, max_top_k))

\* max(config.get("similarity_threshold", 0.7) - 0.05, 0.0)
ToolThreshold(cfg) ==
  IF cfg.similarity_threshold >= ThresholdRelaxation
  THEN cfg.similarity_threshold - ThresholdRelaxation ELSE 0

\* what the Retriever does when it is called
RetrieverOutcomes == {"results", "EmbeddingError", "RetrievalError"}

\* semantic_search_impl: query is "text", or "blank" (only whitespace);
\* outcome is what the Retriever does when it is called
semantic_search_impl(query, top_k, cfg, rows, outcome) ==
  IF query = "blank" THEN ErrorResult("Query must be a non-empty string", <<>>)
  ELSE IF GetConfigRaises
  THEN ErrorResult("'RAGService' object has no attribute 'get_config'", <<>>)
  ELSE LET k    == ClampTopK(IF top_k.kind = "none" THEN cfg.default_top_k
                             ELSE top_k.value, cfg.max_top_k)
           call == RetrieverCall(k, ToolThreshold(cfg))
           found == semantic_search(rows, k, ToolThreshold(cfg))
       IN  IF outcome = "results"
           THEN Returned(found, extract_sources(found), "", <<call>>)
           ELSE ErrorResult("Semantic search failed", <<call>>)

\* tool_wrapper of semantic_search: kwargs.get("query") is absent ("missing"),
\* "" ("empty"), whitespace ("blank") or a question ("text")
search_tool_wrapper(args, cfg, rows, outcome) ==
  IF args.query \in {"missing", "empty"} THEN Raised("query parameter is required")
  ELSE IF args.top_k.kind = "text" THEN Raised("invalid literal for int()")
  ELSE semantic_search_impl(args.query, args.top_k, cfg, rows, outcome)

\* the dictionary refine_prompt returns
Refinement(original, refined, success) ==
  [raised |-> FALSE, error |-> "", original |-> original, refined |-> refined,
   success |-> success]

\* a variant that reports a failed refinement as a success
refine_prompt_impl_optimistic(prompt, completed) ==
  Refinement(prompt, IF prompt # "blank" /\ completed THEN "refined" ELSE prompt, TRUE)

\* refine_prompt_impl: completed tells whether the auxiliary completion
\* (LLMService.generate_async) returned
refine_prompt_impl(prompt, completed) ==
  IF prompt # "blank" /\ completed
  THEN Refinement(prompt, "refined", TRUE)
  ELSE Refinement(prompt, prompt, FALSE)

\* tool_wrapper of refine_prompt
refine_tool_wrapper(args, completed) ==
  IF args.query \in {"missing", "empty"}
  THEN [raised |-> TRUE, error |-> "original_prompt parameter is required",
        original |-> args.query, refined |-> "", success |-> FALSE]
  ELSE refine_prompt_impl(args.query, completed)

\* ------------------------------------------------------------------ providers

LcMessage(role, content, id, err, calls) ==
  [role |-> role, content |-> content, tool_call_id |-> id,
   is_error |-> err, tool_calls |-> calls]

\* _convert_messages (the same in the four providers)
convert_messages(context) ==
  [i \in 1..Len(context) |->
     LcMessage(IF context[i].role = "system" THEN "system"
               ELSE IF context[i].role = "assistant" THEN "ai" ELSE "human",
               context[i].content, 0, FALSE, <<>>)]

\* create_rag_tools_list: the tools bound to the model
RegisteredTools == <<"refine_prompt", "semantic_search">>

\* the lookup "for tool in tools: if tool.name == tool_name"
IsRegistered(name) == \E i \in 1..Len(RegisteredTools) : RegisteredTools[i] = name

\* OpenRouterProvider._supports_tool_calling
ToolSupportingModels == {"llama", "qwen", "mistral", "mixtral", "deepseek"}
BlockedModels == {"phi"}
\* a variant without the list of blocked models
supports_tool_callingAlways(name) == TRUE

supports_tool_calling(name) ==
  IF name \cap ToolSupportingModels # {} THEN TRUE
  ELSE IF name \cap BlockedModels # {} THEN FALSE
  ELSE TRUE

\* the pre-flight check exists in the OpenRouter provider only
PreflightFallback(p, name) == p = "openrouter" /\ ~supports_tool_calling(name)

\* a variant in which every provider falls back
FallsBackEverywhere(p) == TRUE

\* "except Exception" around ainvoke: only OpenRouter falls back to
\* agenerate_stream(messages); the others let the exception propagate
FallsBackOnInvokeError(p) == p = "openrouter"

\* a variant that catches BaseException (a bare "except:")
CaughtByBareExcept(exc) == TRUE

\* "except Exception" catches Exception and its subclasses; CancelledError and
\* GeneratorExit derive from BaseException
CaughtByExceptException(exc) == exc \in {"Exception", "ValueError"}

\* a variant that compares with <=
LoopGuardInclusive(i, cap) == i <= cap

\* while iteration < max_iterations
LoopGuard(i, cap) == i < cap

\* if iteration >= max_iterations, after the loop
NoticeDue(i, cap) == i >= cap

\* if response.tool_calls
HasToolCalls(response) == response.tool_calls # <<>>

\* the keyword arguments of a tool call of the model
ArgsOf(call) ==
  [query |-> IF call.args = "valid" THEN "text" ELSE call.args, top_k |-> NoArg]

\* tool.func(**tool_input) of a registered tool; outcome tells whether what
\* the tool relies on (the Retriever, the auxiliary completion) answers
ToolRun(call, cfg, rows, outcome) ==
  IF call.name = "semantic_search"
  THEN search_tool_wrapper(ArgsOf(call), cfg, rows,
                           IF outcome = "ok" THEN "results" ELSE "RetrievalError")
  ELSE refine_tool_wrapper(ArgsOf(call), outcome = "ok")

\* result.get("sources", [])
ToolSources(call, result) ==
  IF call.name = "semantic_search" THEN result.sources ELSE <<>>

\* whether the run reaches what the tool relies on: the Retriever for a
\* search, the auxiliary completion for a refinement
CallsOut(call, cfg, rows) ==
  IF call.name = "semantic_search"
  THEN search_tool_wrapper(ArgsOf(call), cfg, rows, "results").retriever_calls # <<>>
  ELSE ArgsOf(call).query = "text"

\* what the returned dictionary says
ResultSummary(call, result) ==
  IF call.name = "semantic_search"
  THEN <<IF result.error # "" THEN "search failed" ELSE "search results">>
  ELSE <<result.original, result.refined,
         IF result.success THEN "success" ELSE "failure">>
ErrorText(name) ==
  IF name = "semantic_search" THEN "query parameter is required"
  ELSE "original_prompt parameter is required"

PEvent(type, name, id, err, sources, content) ==
  [type |-> type, tool_name |-> name, tool_id |-> id, error |-> err,
   sources |-> sources, content |-> content]

\* the type a provider gives to the event of a tool call
ToolCallType(p, name) ==
  IF p = "anthropic" /\ name = "refine_prompt" THEN "refine_prompt"
  ELSE IF p = "anthropic" /\ name = "semantic_search" THEN "rag_search"
  ELSE "tool_call"

\* the event a provider yields for a tool call
ToolCallEvent(p, call) ==
  PEvent(ToolCallType(p, call.name), call.name, call.id, FALSE, <<>>, <<>>)

TypedResult(name) ==
  IF name = "refine_prompt" THEN "refine_prompt_result"
  ELSE IF name = "semantic_search" THEN "rag_search_result"
  ELSE "tool_result"

\* the event a provider yields after the tool returned
ToolResultType(p, name) ==
  IF p \in {"anthropic", "openrouter"} THEN TypedResult(name) ELSE "tool_result"
ToolResultEvent(p, call, result) ==
  PEvent(ToolResultType(p, call.name), call.name, call.id, FALSE,
         ToolSources(call, result), ResultSummary(call, result))

\* the event a provider yields after the tool raised
ToolErrorType(p, name) ==
  IF p = "openrouter" THEN TypedResult(name) ELSE "tool_result"
ToolErrorEvent(p, call) ==
  PEvent(ToolErrorType(p, call.name), call.name, call.id, TRUE, <<>>, <<>>)

ChunkEvent(token) == PEvent("chunk", "", 0, FALSE, <<>>, token)

\* the ToolMessage appended to the running history
ResultToolMessage(call) ==
  LcMessage("tool", <<"json of the result of ", call.name>>, call.id, FALSE, <<>>)
ErrorToolMessage(call) ==
  LcMessage("tool", <<"Error executing tool: ", ErrorText(call.name)>>,
            call.id, TRUE, <<>>)
NotFoundToolMessage(call) ==
  LcMessage("tool", <<"Error: Tool '", call.name, "' not found">>,
            call.id, TRUE, <<>>)

\* a variant that keeps error messages out of the history
AppendToolMessageUnlessError(history, tool_message) ==
  IF tool_message.is_error THEN history ELSE Append(history, tool_message)

\* "if tool_message: langchain_messages.append(tool_message)"
AppendToolMessage(history, tool_message) == Append(history, tool_message)

\* ------------------------------------------------------------------ service

Event(type, st, content, message) ==
  [type |-> type, status |-> st, content |-> content, message |-> message]

\* what send_message_stream yields for an event of the provider
ServiceYield(pe) ==
  IF pe.type = "tool_call" THEN <<Event("rag_search", "searching", <<>>, NoMessage)>>
  ELSE IF pe.type = "tool_result" /\ ~pe.error
       THEN <<Event("rag_search", "completed", <<>>, NoMessage)>>
  ELSE IF pe.type = "chunk" THEN <<Event("chunk", "", pe.content, NoMessage)>>
  ELSE <<>>

ServiceSources(pe, sources) ==
  IF pe.type = "tool_result" /\ ~pe.error THEN sources \o pe.sources ELSE sources

ServiceContent(pe, content) ==
  IF pe.type = "chunk" THEN content \o pe.content ELSE content

\* generate_stream: the event types it turns into server-sent events
Forwarded(type) == type \in {"user_message", "rag_search", "chunk", "done"}

Sse(evs) == SelectSeq(evs, LAMBDA e : Forwarded(e.type))

\* a variant without the "except Exception" handler
ErrorEventsValueErrorOnly(exc) ==
  IF exc = "ValueError" THEN <<[type |-> "error", status |-> "400", content |-> <<>>,
                                message |-> NoMessage]>>
  ELSE <<>>

\* generate_stream: "except ValueError" (400) and "except Exception" (500)
ErrorEvents(exc) ==
  IF exc = "ValueError" THEN <<Event("error", "400", <<>>, NoMessage)>>
  ELSE IF CaughtByExceptException(exc)
       THEN <<Event("error", "500", <<>>, NoMessage)>>
  ELSE <<>>

\* a variant whose Done carries the sources without the text
DoneEventWithoutContent(assistant) ==
  Event("done", "", <<>>, Message("assistant", <<>>, assistant.sources))

\* yield {"type": "done", "content": assistant_message}
DoneEvent(assistant) == Event("done", "", <<>>, assistant)


\* ------------------------------------------------------------------ the model's answers

CallChoices ==
  { [name |-> "semantic_search", args |-> "valid"],
    [name |-> "semantic_search", args |-> "missing"],
    [name |-> "refine_prompt", args |-> "valid"],
    [name |-> "lookup_grades", args |-> "valid"] }

\* the tool calls of one response: one call, or a call followed by searches
FollowUp == [name |-> "semantic_search", args |-> "valid"]
CallLists ==
  { cs \in UNION { [1..n -> CallChoices] : n \in 1..MaxCalls } :
      /\ \A i \in 2..Len(cs) : cs[i] = FollowUp
      /\ Len(cs) > 1 => cs[1].name # "refine_prompt" }

Responses ==
  { [tool_calls |-> cs, content |-> <<>>] : cs \in CallLists }
  \cup { [tool_calls |-> <<>>, content |-> t] : t \in Texts }

\* whether what a tool relies on answers
ToolOutcomes == {"ok", "failed"}

WithIds(cs, first) ==
  [i \in 1..Len(cs) |-> [name |-> cs[i].name, args |-> cs[i].args, id |-> first + i - 1]]

\* ------------------------------------------------------------------ Init

\* the row ChatConfigService.get_config creates when there is none; the
\* iteration cap defaults to the providers' default
DefaultConfig == ChatConfig(5, 10, 70, max_iterations)

\* the chunks of the knowledge base with their similarity to the question
K1 == Chunk("d1", 1, 91, "PROCESSED")
K2 == Chunk("d1", 1, 80, "PROCESSED")
K3 == Chunk("d2", 1, 60, "PROCESSED")
K4 == Chunk("d2", 2, 0 - 20, "PROCESSED")
K5 == Chunk("d3", 1, 95, "PENDING")
Indexed == <<K3, K1, K2>>

NoOp == [name |-> "none"]
NoOut == [raised |-> FALSE]

NoDisconnect == [events |-> 0, requests |-> 0, tool_runs |-> 0, suspended |-> FALSE]
NoRequest == [session_id |-> "", user_id |-> ""]

\* a request that is not running a turn
IdleTurn ==
  [pc |-> "idle", session_messages |-> <<>>, system_message |-> NoMessage,
   user_message |-> NoMessage, full_content |-> <<>>]

TurnIds == {"A", "B"}

\* LLMService.__init__: self._providers = {}
NoProvider == [provider_name |-> "none", model_name |-> "", api_key |-> ""]
ModelIds == {"m1", "m2", "m9"}
NoCall == [model_id |-> "", api_key |-> "", raised |-> FALSE, provider |-> NoProvider]

\* no turn has run on the session
NoTurn ==
  /\ turns = [t \in TurnIds |-> IdleTurn]
  /\ providers = [m \in ModelIds |-> NoProvider] /\ got = NoCall
  /\ messages = <<>> /\ total_messages = 0 /\ status = "active"
  /\ pc = "idle" /\ suspended = FALSE /\ disconnected = FALSE /\ use_rag = TRUE
  /\ system_message = NoMessage /\ user_message = NoMessage
  /\ conversation_context = <<>> /\ langchain_messages = <<>>
  /\ iteration = 0 /\ tool_calls = <<>> /\ next_id = 1 /\ chunks = <<>>
  /\ full_content = <<>> /\ sources_list = <<>> /\ assistant_message = NoMessage
  /\ provider_events = <<>> /\ events = <<>> /\ requests = <<>> /\ tool_runs = 0
  /\ request = NoRequest
  /\ log0 = <<>> /\ last_request = <<>> /\ bad_calls = {} /\ failed_runs = {}
  /\ at_disconnect = NoDisconnect /\ answered = <<>>

Init ==
  /\ NoTurn
  /\ provider \in Providers
  /\ model_name \in ModelNamesOf(provider)
  /\ prompt_fields \in PromptConfigs
  /\ config = DefaultConfig /\ corpus = Indexed
  /\ lib_op = NoOp /\ lib_out = NoOut

\* ------------------------------------------------------------------ steps

\* the task can run: it is not parked at a suspension point with a
\* cancellation pending
Runnable == ~(suspended /\ disconnected)

\* an exception leaves send_message_stream and reaches generate_stream
Raise(exc) ==
  /\ events' = events \o ErrorEvents(exc)
  /\ pc' = IF ErrorEvents(exc) = <<>> THEN "cancelled" ELSE "error"
  /\ suspended' = FALSE

\* the provider yields pe; send_message_stream handles it
Emit(pe) ==
  /\ provider_events' = Append(provider_events, pe)
  /\ events' = events \o Sse(ServiceYield(pe))
  /\ full_content' = ServiceContent(pe, full_content)
  /\ sources_list' = ServiceSources(pe, sources_list)
  /\ suspended' = (Sse(ServiceYield(pe)) # <<>>)

SetOutcome(reqs, outcome) ==
  [reqs EXCEPT ![Len(reqs)] = [kind |-> reqs[Len(reqs)].kind, outcome |-> outcome]]

\* a variant without the break
TextBranchContinues == "loop"

\* the break of the text branch leaves the loop
TextBranchNext == "after_loop"

\* generate_stream and the head of send_message_stream, up to the yield of
\* the user message (rag is the use_rag parameter of send_message_stream;
\* generate_stream passes True)
StartTurn(sid, uid, text, rag) ==
  /\ pc \in AtRest
  /\ Len(messages) <= MaxHistory
  /\ LET accepted == SessionFound(sid, uid) /\ IsActive(status)
         context  == build_conversation_context(prompt_fields, messages)
         user     == Message("user", text, <<>>)
     IN  /\ pc' = IF accepted THEN "started" ELSE "error"
         /\ suspended' = accepted
         /\ use_rag' = IF accepted THEN rag ELSE TRUE
         /\ events' = IF accepted
                      THEN Sse(<<Event("user_message", "", <<>>, user)>>)
                      ELSE ErrorEvents("ValueError")
         /\ system_message' = IF accepted THEN SystemMessageOf(context) ELSE NoMessage
         /\ user_message' = IF accepted THEN user ELSE NoMessage
         /\ conversation_context' = IF accepted THEN context ELSE <<>>
  /\ disconnected' = FALSE /\ at_disconnect' = NoDisconnect /\ answered' = <<>>
  /\ langchain_messages' = <<>> /\ iteration' = 0 /\ tool_calls' = <<>>
  /\ next_id' = 1 /\ chunks' = <<>> /\ full_content' = <<>>
  /\ sources_list' = <<>> /\ assistant_message' = NoMessage
  /\ provider_events' = <<>> /\ requests' = <<>> /\ tool_runs' = 0
  /\ request' = [session_id |-> sid, user_id |-> uid]
  /\ log0' = messages /\ last_request' = <<>> /\ bad_calls' = {} /\ failed_runs' = {}
  /\ UNCHANGED <<db_vars, cfg_vars, lib_vars, svc_vars>>

\* send_message_stream after the yield of the user message, into the provider
Begin ==
  /\ pc = "started" /\ Runnable
  /\ conversation_context' = Append(conversation_context, Ctx("user", user_message.content))
  /\ IF use_rag /\ ~PreflightFallback(provider, model_name)
     THEN /\ langchain_messages' = convert_messages(conversation_context')
          /\ pc' = "loop"
     ELSE /\ langchain_messages' = langchain_messages
          /\ pc' = "stream"
  /\ iteration' = 0
  /\ suspended' = FALSE
  /\ UNCHANGED <<db_vars, cfg_vars, lib_vars, svc_vars, disconnected, use_rag, system_message, user_message,
                 tool_calls, next_id, chunks, full_content, sources_list,
                 assistant_message, out_vars, obs_vars>>

\* the head of the while loop: one more request to the model, or the exit
IssueRequest ==
  /\ pc = "loop"
  /\ IF LoopGuard(iteration, max_iterations)
     THEN /\ iteration' = iteration + 1
          /\ requests' = Append(requests, [kind |-> "tools", outcome |-> "pending"])
          /\ last_request' = langchain_messages
          /\ pc' = "awaiting"
          /\ suspended' = TRUE
     ELSE /\ pc' = "after_loop"
          /\ suspended' = FALSE
          /\ UNCHANGED <<iteration, requests, last_request>>
  /\ UNCHANGED <<db_vars, cfg_vars, lib_vars, svc_vars, disconnected, use_rag, system_message, user_message,
                 conversation_context, langchain_messages, tool_calls, next_id, chunks,
                 full_content, sources_list, assistant_message, provider_events, events,
                 tool_runs, request, log0, bad_calls, failed_runs, at_disconnect, answered>>

\* ainvoke returns a response
Receive(response) ==
  /\ pc = "awaiting" /\ Runnable
  /\ suspended' = FALSE
  /\ IF HasToolCalls(response)
     THEN LET calls == WithIds(response.tool_calls, next_id)
          IN  /\ langchain_messages' =
                   Append(langchain_messages, LcMessage("ai", <<>>, 0, FALSE, calls))
              /\ tool_calls' = calls
              /\ next_id' = next_id + Len(calls)
              /\ requests' = SetOutcome(requests, "tool_calls")
              /\ pc' = "tool_call"
              /\ chunks' = chunks
     ELSE /\ chunks' = WordTokens(response.content)
          /\ requests' = SetOutcome(requests, "text")
          /\ pc' = IF chunks' = <<>> THEN TextBranchNext ELSE "chunks"
          /\ UNCHANGED <<langchain_messages, tool_calls, next_id>>
  /\ answered' = IF HasToolCalls(response) THEN answered ELSE response.content
  /\ UNCHANGED <<db_vars, cfg_vars, lib_vars, svc_vars, disconnected, use_rag, system_message, user_message,
                 conversation_context, iteration, full_content, sources_list,
                 assistant_message, provider_events, events, tool_runs,
                 request, log0, last_request, bad_calls, failed_runs, at_disconnect>>

\* ainvoke raises
InvokeFails ==
  /\ pc = "awaiting" /\ Runnable
  /\ requests' = SetOutcome(requests, "failed")
  /\ IF FallsBackOnInvokeError(provider)
     THEN /\ pc' = "stream" /\ suspended' = FALSE /\ events' = events
     ELSE Raise("Exception")
  /\ UNCHANGED <<db_vars, cfg_vars, lib_vars, svc_vars, disconnected, use_rag, system_message, user_message,
                 conversation_context, langchain_messages, iteration, tool_calls, next_id,
                 chunks, full_content, sources_list, assistant_message, provider_events,
                 tool_runs, obs_vars>>


AfterCall == IF Tail(tool_calls) = <<>> THEN "loop" ELSE "tool_call"

\* for tool_call in response.tool_calls: the yield of the tool call event
EmitToolCall ==
  /\ pc = "tool_call"
  /\ Emit(ToolCallEvent(provider, Head(tool_calls)))
  /\ pc' = "tool_run"
  /\ UNCHANGED <<db_vars, cfg_vars, lib_vars, svc_vars, disconnected, use_rag, system_message, user_message,
                 conversation_context, langchain_messages, iteration, tool_calls, next_id,
                 chunks, assistant_message, requests, tool_runs, obs_vars>>

\* the lookup of the tool, its execution, the yield of its result
RunTool(outcome) ==
  /\ pc = "tool_run" /\ Runnable
  /\ LET call == Head(tool_calls)
         ran  == ToolRun(call, config, corpus, outcome)
     IN  /\ outcome = "failed" =>
              IsRegistered(call.name) /\ CallsOut(call, config, corpus)
         /\ failed_runs' = IF outcome = "failed" THEN failed_runs \cup {call.id}
                           ELSE failed_runs
         /\ IF ~IsRegistered(call.name)
            THEN /\ langchain_messages' =
                      AppendToolMessage(langchain_messages, NotFoundToolMessage(call))
                 /\ bad_calls' = bad_calls \cup {call.id}
                 /\ tool_calls' = Tail(tool_calls)
                 /\ pc' = AfterCall
                 /\ suspended' = FALSE
                 /\ UNCHANGED <<provider_events, events, full_content, sources_list, tool_runs>>
            ELSE IF ran.raised
            THEN /\ tool_runs' = tool_runs + 1
                 /\ Emit(ToolErrorEvent(provider, call))
                 /\ langchain_messages' =
                      AppendToolMessage(langchain_messages, ErrorToolMessage(call))
                 /\ bad_calls' = bad_calls \cup {call.id}
                 /\ tool_calls' = Tail(tool_calls)
                 /\ pc' = AfterCall
            ELSE /\ tool_runs' = tool_runs + 1
                 /\ Emit(ToolResultEvent(provider, call, ran))
                 /\ bad_calls' = bad_calls
                 /\ IF suspended'
                    THEN /\ pc' = "tool_append"
                         /\ UNCHANGED <<langchain_messages, tool_calls>>
                    ELSE /\ langchain_messages' =
                              AppendToolMessage(langchain_messages, ResultToolMessage(call))
                         /\ tool_calls' = Tail(tool_calls)
                         /\ pc' = AfterCall
  /\ UNCHANGED <<db_vars, cfg_vars, lib_vars, svc_vars, disconnected, use_rag, system_message, user_message,
                 conversation_context, iteration, next_id, chunks, assistant_message,
                 requests, request, log0, last_request, at_disconnect, answered>>

\* after the yield of the result: the tool message joins the history
AppendResult ==
  /\ pc = "tool_append" /\ Runnable
  /\ langchain_messages' =
       AppendToolMessage(langchain_messages, ResultToolMessage(Head(tool_calls)))
  /\ tool_calls' = Tail(tool_calls)
  /\ pc' = AfterCall
  /\ suspended' = FALSE
  /\ UNCHANGED <<db_vars, cfg_vars, lib_vars, svc_vars, disconnected, use_rag, system_message, user_message,
                 conversation_context, iteration, next_id, chunks, full_content,
                 sources_list, assistant_message, out_vars, obs_vars>>

\* the text branch: one word of the answer
EmitChunk ==
  /\ pc = "chunks" /\ Runnable
  /\ Emit(ChunkEvent(Head(chunks)))
  /\ chunks' = Tail(chunks)
  /\ pc' = IF chunks' = <<>> THEN TextBranchNext ELSE "chunks"
  /\ UNCHANGED <<db_vars, cfg_vars, lib_vars, svc_vars, disconnected, use_rag, system_message, user_message,
                 conversation_context, langchain_messages, iteration, tool_calls, next_id,
                 assistant_message, requests, tool_runs, obs_vars>>

\* after the loop: the notice, and the end of the provider's generator
AfterLoop ==
  /\ pc = "after_loop" /\ Runnable
  /\ IF NoticeDue(iteration, max_iterations)
     THEN Emit(ChunkEvent(MaxIterationsNotice))
     ELSE /\ suspended' = FALSE
          /\ UNCHANGED <<provider_events, events, full_content, sources_list>>
  /\ pc' = "persist"
  /\ UNCHANGED <<db_vars, cfg_vars, lib_vars, svc_vars, disconnected, use_rag, system_message, user_message,
                 conversation_context, langchain_messages, iteration, tool_calls, next_id,
                 chunks, assistant_message, requests, tool_runs, obs_vars>>

\* agenerate_stream(messages): the plain streaming request
OpenStream(text) ==
  /\ pc = "stream"
  /\ requests' = Append(requests, [kind |-> "stream", outcome |-> "pending"])
  /\ chunks' = NativeChunks(text)
  /\ pc' = "streaming"
  /\ suspended' = TRUE
  /\ UNCHANGED <<db_vars, cfg_vars, lib_vars, svc_vars, disconnected, use_rag, system_message, user_message,
                 conversation_context, langchain_messages, iteration, tool_calls, next_id,
                 full_content, sources_list, assistant_message, provider_events, events,
                 tool_runs, obs_vars>>

StreamChunk ==
  /\ pc = "streaming" /\ Runnable /\ chunks # <<>>
  /\ Emit(ChunkEvent(Head(chunks)))
  /\ chunks' = Tail(chunks)
  /\ pc' = "streaming"
  /\ UNCHANGED <<db_vars, cfg_vars, lib_vars, svc_vars, disconnected, use_rag, system_message, user_message,
                 conversation_context, langchain_messages, iteration, tool_calls, next_id,
                 assistant_message, requests, tool_runs, obs_vars>>

StreamEnds ==
  /\ pc = "streaming" /\ Runnable /\ chunks = <<>>
  /\ requests' = SetOutcome(requests, "streamed")
  /\ pc' = "persist"
  /\ suspended' = FALSE
  /\ UNCHANGED <<db_vars, cfg_vars, lib_vars, svc_vars, disconnected, use_rag, system_message, user_message,
                 conversation_context, langchain_messages, iteration, tool_calls, next_id,
                 chunks, full_content, sources_list, assistant_message, provider_events,
                 events, tool_runs, obs_vars>>

StreamFails ==
  /\ pc = "streaming" /\ Runnable
  /\ requests' = SetOutcome(requests, "failed")
  /\ Raise("Exception")
  /\ UNCHANGED <<db_vars, cfg_vars, lib_vars, svc_vars, disconnected, use_rag, system_message, user_message,
                 conversation_context, langchain_messages, iteration, tool_calls, next_id,
                 chunks, full_content, sources_list, assistant_message, provider_events,
                 tool_runs, obs_vars>>

\* the assistant message, the appends to session.messages and db.commit()
Persist(ok) ==
  /\ pc = "persist" /\ Runnable
  /\ LET assistant == Message("assistant", full_content,
                              UniqueSources(use_rag, sources_list))
         new == AppendExchange(messages, system_message, user_message, assistant)
     IN  /\ assistant_message' = assistant
         /\ messages' = Committed(ok, messages, new)
         /\ total_messages' = Committed(ok, total_messages, Len(new))
  /\ IF ok
     THEN /\ pc' = "committed" /\ suspended' = FALSE /\ events' = events
     ELSE Raise("Exception")
  /\ UNCHANGED <<status, cfg_vars, lib_vars, svc_vars, disconnected, use_rag, system_message, user_message,
                 conversation_context, langchain_messages, iteration, tool_calls, next_id,
                 chunks, full_content, sources_list, provider_events, requests,
                 tool_runs, obs_vars>>

\* yield {"type": "done", "content": assistant_message}
EmitDone ==
  /\ pc = "committed"
  /\ events' = events \o Sse(<<DoneEvent(assistant_message)>>)
  /\ pc' = "done"
  /\ suspended' = FALSE
  /\ UNCHANGED <<db_vars, cfg_vars, lib_vars, svc_vars, disconnected, use_rag, system_message, user_message,
                 conversation_context, langchain_messages, iteration, tool_calls, next_id,
                 chunks, full_content, sources_list, assistant_message, provider_events,
                 requests, tool_runs, obs_vars>>

\* the caller goes away
Disconnect ==
  /\ pc \notin AtRest /\ ~disconnected
  /\ disconnected' = TRUE
  /\ at_disconnect' = [events |-> Len(events), requests |-> Len(requests),
                       tool_runs |-> tool_runs, suspended |-> suspended]
  /\ UNCHANGED <<db_vars, cfg_vars, lib_vars, svc_vars, pc, suspended, use_rag, system_message, user_message,
                 conversation_context, langchain_messages, iteration, tool_calls, next_id,
                 chunks, full_content, sources_list, assistant_message, out_vars,
                 request, log0, last_request, bad_calls, failed_runs, answered>>

\* the task is about to await the provider: a cancellation that is pending
\* may be delivered there before the request leaves, or after
AtAwait == (pc = "loop" /\ LoopGuard(iteration, max_iterations)) \/ pc = "stream"

\* the cancellation is raised in the task, where it is suspended or at the
\* await it reaches next
Cancel ==
  /\ pc \notin AtRest /\ disconnected
  /\ suspended \/ AtAwait
  /\ IF pc \in {"loop", "awaiting"} /\ FallsBackOnInvokeError(provider)
        /\ CaughtByExceptException("CancelledError")
     THEN /\ pc' = "stream" /\ suspended' = FALSE /\ events' = events
     ELSE Raise("CancelledError")
  /\ UNCHANGED <<db_vars, cfg_vars, lib_vars, svc_vars, disconnected, use_rag, system_message, user_message,
                 conversation_context, langchain_messages, iteration, tool_calls, next_id,
                 chunks, full_content, sources_list, assistant_message, provider_events,
                 requests, tool_runs, obs_vars>>

\* between two turns nothing of the finished turn is left but the row
Forget ==
  /\ pc' = "idle" /\ suspended' = FALSE /\ disconnected' = FALSE /\ use_rag' = TRUE
  /\ system_message' = NoMessage /\ user_message' = NoMessage
  /\ conversation_context' = <<>> /\ langchain_messages' = <<>>
  /\ iteration' = 0 /\ tool_calls' = <<>> /\ next_id' = 1 /\ chunks' = <<>>
  /\ full_content' = <<>> /\ sources_list' = <<>> /\ assistant_message' = NoMessage
  /\ provider_events' = <<>> /\ events' = <<>> /\ requests' = <<>> /\ tool_runs' = 0
  /\ request' = NoRequest
  /\ log0' = messages /\ last_request' = <<>> /\ bad_calls' = {} /\ failed_runs' = {}
  /\ at_disconnect' = NoDisconnect /\ answered' = <<>>

\* update_session(status=...), between two turns
UpdateSession(st) ==
  /\ pc \in AtRest /\ st \in {"active", "completed"} /\ st # status
  /\ status' = st
  /\ Forget
  /\ UNCHANGED <<messages, total_messages, cfg_vars, lib_vars, svc_vars>>

\* analyze_session, between two turns
AnalyzeSession ==
  /\ pc \in AtRest /\ messages # <<>> /\ status # "analyzed"
  /\ status' = "analyzed"
  /\ Forget
  /\ UNCHANGED <<messages, total_messages, cfg_vars, lib_vars, svc_vars>>

TurnStep ==
  \/ Begin
  \/ IssueRequest
  \/ \E r \in Responses : Receive(r)
  \/ InvokeFails
  \/ EmitToolCall
  \/ \E outcome \in ToolOutcomes : RunTool(outcome)
  \/ AppendResult
  \/ EmitChunk
  \/ AfterLoop
  \/ \E t \in Texts : OpenStream(t)
  \/ StreamChunk
  \/ StreamEnds
  \/ StreamFails
  \/ \E ok \in BOOLEAN : Persist(ok)
  \/ EmitDone
  \/ Cancel

Next ==
  \/ \E sid \in SessionIds, uid \in UserIds, text \in UserTexts, rag \in BOOLEAN :
       StartTurn(sid, uid, text, rag)
  \/ TurnStep
  \/ Disconnect
  \/ \E st \in Statuses : UpdateSession(st)
  \/ AnalyzeSession

Spec == Init /\ [][Next]_vars

\* the event loop runs the task of the turn, and the provider and the tools
\* answer or fail
FairSpec == Spec /\ WF_vars(TurnStep)

\* ------------------------------------------------------------------ retrieval library

\* the knowledge bases: empty, three chunks of which two share a page, one
\* with a document that is not processed yet and a chunk pointing away from
\* the question, and that chunk alone
Corpora == {<<>>, Indexed, <<K2, K5, K4, K1>>, <<K4>>}

TopKs == 1..3
Thresholds == {0, 65, 100}
EndpointTopKs == {0, 1, 3, 21}
ToolArgs ==
  { [query |-> q, top_k |-> k] :
      q \in {"missing", "empty", "blank", "text"},
      k \in {NoArg, IntArg(0), IntArg(1), IntArg(3), TextArg} }
RefineArgs ==
  { [query |-> q, top_k |-> NoArg] : q \in {"missing", "empty", "blank", "text"} }
ChunkLists == UNION { [1..n -> {K1, K2, K3, K4}] : n \in 0..MaxChunks }

\* the values an administrator submits for a field of the configuration
RetrievalFields == {"default_top_k", "max_top_k", "similarity_threshold"}
SubmittedFor(field) ==
  IF field = "default_top_k" THEN {0, 1}
  ELSE IF field = "max_top_k" THEN {2, 101}
  ELSE IF field = "similarity_threshold" THEN {3, 101}
  ELSE {0, 1, max_iterations + 1}

Op(name, args, top_k, threshold, outcome, input) ==
  [name |-> name, args |-> args, top_k |-> top_k, threshold |-> threshold,
   outcome |-> outcome, input |-> input]

\* RAGService.semantic_search as a caller sees it: RuntimeError when the
\* embedding or the query fails
rag_search(rows, top_k, similarity_threshold, outcome) ==
  IF outcome = "results"
  THEN Returned(semantic_search(rows, top_k, similarity_threshold), <<>>, "", <<>>)
  ELSE Raised("Semantic search failed")

\* POST /rag/search: the Query(...) validation, then the search
search_endpoint(rows, top_k, similarity_threshold, outcome) ==
  IF top_k < 1 \/ top_k > EndpointMaxTopK
     \/ similarity_threshold < 0 \/ similarity_threshold > 100
  THEN Raised("422")
  ELSE IF rag_search(rows, Min(top_k, EndpointMaxTopK), similarity_threshold, outcome).raised
  THEN Raised("500")
  ELSE rag_search(rows, Min(top_k, EndpointMaxTopK), similarity_threshold, outcome)

\* update_config: the range the field must lie in
ValidFor(field, value) ==
  IF field = "similarity_threshold" THEN 0 <= value /\ value <= 100
  ELSE 1 <= value /\ value <= 100

RagInit ==
  /\ NoTurn
  /\ provider = "openai" /\ model_name = {} /\ prompt_fields = {}
  /\ config = DefaultConfig /\ corpus \in Corpora
  /\ lib_op = NoOp /\ lib_out = NoOut

LibraryOnly ==
  UNCHANGED <<db_vars, cfg_vars, turn_vars, out_vars, obs_vars, corpus, svc_vars>>

\* RAGService(db).semantic_search(query, top_k, similarity_threshold)
Search(k, t, outcome) ==
  /\ lib_op' = Op("semantic_search", NoArg, k, t, outcome, <<>>)
  /\ lib_out' = rag_search(corpus, k, t, outcome)
  /\ UNCHANGED config /\ LibraryOnly

\* POST /rag/search?top_k=k&similarity_threshold=t
SearchEndpoint(k, t, outcome) ==
  /\ lib_op' = Op("endpoint", NoArg, k, t, outcome, <<>>)
  /\ lib_out' = search_endpoint(corpus, k, t, outcome)
  /\ UNCHANGED config /\ LibraryOnly

\* the semantic_search tool, called with the arguments of the model
SearchTool(args, outcome) ==
  /\ lib_op' = Op("tool", args, 0, 0, outcome, <<>>)
  /\ lib_out' = search_tool_wrapper(args, config, corpus, outcome)
  /\ UNCHANGED config /\ LibraryOnly

\* RAGService.extract_sources(results)
ExtractSources(list) ==
  /\ lib_op' = Op("extract_sources", NoArg, 0, 0, "results", list)
  /\ lib_out' = Returned(<<>>, extract_sources(list), "", <<>>)
  /\ UNCHANGED config /\ LibraryOnly

\* the refine_prompt tool, called with the arguments of the model
RefineTool(args, completed) ==
  /\ lib_op' = Op("refine_prompt", args, 0, 0,
                  IF completed THEN "results" ELSE "CompletionError", <<>>)
  /\ lib_out' = refine_tool_wrapper(args, completed)
  /\ UNCHANGED config /\ LibraryOnly

\* ChatConfigService.update_config(field=value)
UpdateConfig(field, value) ==
  /\ lib_op' = Op("update_config", NoArg, value, 0, field, <<>>)
  /\ IF ValidFor(field, value)
     THEN /\ config' = [config EXCEPT ![field] = value]
          /\ lib_out' = NoOut
     ELSE /\ config' = config
          /\ lib_out' = [raised |-> TRUE]
  /\ LibraryOnly

RagNext ==
  \/ \E k \in TopKs, t \in Thresholds, o \in RetrieverOutcomes : Search(k, t, o)
  \/ \E k \in EndpointTopKs, t \in Thresholds, o \in RetrieverOutcomes :
       SearchEndpoint(k, t, o)
  \/ \E args \in ToolArgs, o \in RetrieverOutcomes : SearchTool(args, o)
  \/ \E list \in ChunkLists : ExtractSources(list)
  \/ \E args \in RefineArgs, completed \in BOOLEAN : RefineTool(args, completed)
  \/ \E field \in RetrievalFields : \E value \in SubmittedFor(field) :
       UpdateConfig(field, value)

RagSpec == RagInit /\ [][RagNext]_vars

\* ------------------------------------------------------------------ administration

\* the administrator stores a new iteration cap between two turns
AdminUpdate(value) ==
  /\ pc \in AtRest
  /\ UpdateConfig("tool_calling_max_iterations", value)

ConfigInit ==
  /\ NoTurn
  /\ provider = "openai" /\ model_name = {} /\ prompt_fields = {}
  /\ config = DefaultConfig /\ corpus = Indexed
  /\ lib_op = NoOp /\ lib_out = NoOut

ConfigNext ==
  \/ Next
  \/ \E value \in SubmittedFor("tool_calling_max_iterations") : AdminUpdate(value)

\* the turns of a session of an OpenAI model, and the administrator
ConfigSpec == ConfigInit /\ [][ConfigNext]_vars

\* ------------------------------------------------------------------ overlapping turns

\* What the requests submit and what the model answers them.
OverlapTexts == {<<"q">>, <<"r">>}
Answers == {<<"a">>, <<"b">>}

OnlyTurns(t) == UNCHANGED <<status, cfg_vars, turn_vars, out_vars, obs_vars, lib_vars,
                            providers, got>>

\* send_message_stream up to the yield of the user message: get_db gives the
\* request a database session of its own, get_session loads the row into it
LoadSession(t, text) ==
  /\ turns[t].pc = "idle"
  /\ SessionFound(SessionId, Owner) /\ IsActive(status)
  /\ Len(messages) <= MaxHistory
  /\ turns' = [turns EXCEPT ![t] =
       [pc |-> "loaded", session_messages |-> messages,
        system_message |->
          SystemMessageOf(build_conversation_context(prompt_fields, messages)),
        user_message |-> Message("user", text, <<>>),
        full_content |-> <<>>]]
  /\ UNCHANGED <<messages, total_messages>> /\ OnlyTurns(t)

\* the provider's chunks, collected into full_content
StreamAnswer(t, answer) ==
  /\ turns[t].pc = "loaded"
  /\ turns' = [turns EXCEPT ![t].pc = "streamed", ![t].full_content = answer]
  /\ UNCHANGED <<messages, total_messages>> /\ OnlyTurns(t)

\* the appends to the request's own session.messages, flag_modified and
\* db.commit(): the UPDATE writes the whole list; then the done event
PersistTurn(t, ok) ==
  /\ turns[t].pc = "streamed"
  /\ LET assistant == Message("assistant", turns[t].full_content, <<>>)
         new == AppendExchange(turns[t].session_messages, turns[t].system_message,
                               turns[t].user_message, assistant)
     IN  /\ messages' = Committed(ok, messages, new)
         /\ total_messages' = Committed(ok, total_messages, Len(new))
         /\ turns' = [turns EXCEPT ![t].pc = IF ok THEN "done" ELSE "error",
                                   ![t].session_messages = Committed(ok, messages, new)]
  /\ OnlyTurns(t)

OverlapInit ==
  /\ NoTurn
  /\ provider = "openai" /\ model_name = {} /\ prompt_fields \in PromptConfigs
  /\ config = DefaultConfig /\ corpus = Indexed
  /\ lib_op = NoOp /\ lib_out = NoOut

OverlapNext ==
  \/ \E t \in TurnIds, text \in OverlapTexts : LoadSession(t, text)
  \/ \E t \in TurnIds, answer \in Answers : StreamAnswer(t, answer)
  \/ \E t \in TurnIds, ok \in BOOLEAN : PersistTurn(t, ok)

\* two requests that each run one turn on the session
OverlapSpec == OverlapInit /\ [][OverlapNext]_vars

\* ------------------------------------------------------------------ provider cache

\* The model rows of the database; "m9" is no row.
ModelRows ==
  [m \in {"m1", "m2"} |->
     IF m = "m1" THEN [provider |-> "openai", name |-> "gpt-4.1"]
     ELSE [provider |-> "anthropic", name |-> "claude-sonnet"]]

\* Keys a caller can pass; "" is None.
ApiKeys == {"", "k1", "k2"}

\* settings.OPENAI_API_KEY, settings.ANTHROPIC_API_KEY
SettingsKey(provider_name) ==
  IF provider_name = "openai" THEN "OPENAI_API_KEY" ELSE "ANTHROPIC_API_KEY"

\* "if api_key: ... else: config_key"
KeyFor(api_key, provider_name) ==
  IF api_key # "" THEN api_key ELSE SettingsKey(provider_name)

GetResult(raised, provider_object, cache) ==
  [raised |-> raised, provider |-> provider_object, cache |-> cache]

\* a variant whose cache is not consulted
get_provider_uncached(cache, model_id, api_key) ==
  IF model_id \notin DOMAIN ModelRows THEN GetResult(TRUE, NoProvider, cache)
  ELSE LET made == [provider_name |-> ModelRows[model_id].provider,
                    model_name |-> ModelRows[model_id].name,
                    api_key |-> KeyFor(api_key, ModelRows[model_id].provider)]
       IN  GetResult(FALSE, made, [cache EXCEPT ![model_id] = made])

\* LLMService.get_provider
get_provider(cache, model_id, api_key) ==
  IF cache[model_id] # NoProvider THEN GetResult(FALSE, cache[model_id], cache)
  ELSE IF model_id \notin DOMAIN ModelRows THEN GetResult(TRUE, NoProvider, cache)
  ELSE LET made == [provider_name |-> ModelRows[model_id].provider,
                    model_name |-> ModelRows[model_id].name,
                    api_key |-> KeyFor(api_key, ModelRows[model_id].provider)]
       IN  GetResult(FALSE, made, [cache EXCEPT ![model_id] = made])

ServiceOnly ==
  UNCHANGED <<db_vars, cfg_vars, turn_vars, out_vars, obs_vars, lib_vars, turns>>

\* a request calls get_provider on the LLMService of app.state
GetProvider(model_id, api_key) ==
  /\ got' = [model_id |-> model_id, api_key |-> api_key,
             raised |-> get_provider(providers, model_id, api_key).raised,
             provider |-> get_provider(providers, model_id, api_key).provider]
  /\ providers' = get_provider(providers, model_id, api_key).cache
  /\ ServiceOnly

\* LLMService.clear_cache
ClearCache ==
  /\ providers' = [m \in ModelIds |-> NoProvider]
  /\ UNCHANGED got
  /\ ServiceOnly

CacheInit ==
  /\ NoTurn
  /\ provider = "openai" /\ model_name = {} /\ prompt_fields = {}
  /\ config = DefaultConfig /\ corpus = Indexed
  /\ lib_op = NoOp /\ lib_out = NoOut

CacheNext ==
  \/ \E m \in ModelIds, k \in ApiKeys : GetProvider(m, k)
  \/ ClearCache

\* the calls of all requests on the one LLMService
CacheSpec == CacheInit /\ [][CacheNext]_vars

\* ------------------------------------------------------------------ observations

Count(evs, type) == Len(SelectSeq(evs, LAMBDA e : e.type = type))

\* the Done and Error events the caller was sent
DoneCount == Count(events, "done")
ErrorCount == Count(events, "error")
TerminalCount == DoneCount + ErrorCount

LastOf(seq) == seq[Len(seq)]

\* the provider requests of the turn, by kind and outcome
ToolRequests == SelectSeq(requests, LAMBDA r : r.kind = "tools")
ToolIterations == Len(SelectSeq(requests, LAMBDA r : r.outcome = "tool_calls"))
FailedAt(i) == requests[i].outcome = "failed"

InFlight == pc \notin AtRest

\* ------------------------------------------------------------------ C1

\* C1: when a turn has ended with Done, the session log is the log the turn
\* found, then a system message only if that log was empty, then the turn's
\* user message, then one assistant message, and total_messages counts the
\* log; this holds whatever the number of tool iterations (0..max_iterations).
C1_DoneAppendsOneExchange ==
  pc = "done" =>
    LET n == Len(log0)
        m == Len(messages)
    IN  /\ m \in {n + 2, n + 3}
        /\ SubSeq(messages, 1, n) = log0
        /\ m = n + 3 => (n = 0 /\ messages[1].role = "system")
        /\ messages[m - 1] = user_message
        /\ user_message.role = "user"
        /\ messages[m].role = "assistant"
        /\ total_messages = m
        /\ ToolIterations \in 0..max_iterations

\* a second turn of a session with a system prompt ended with Done after
\* max_iterations tool iterations
C1_Witness ==
  /\ pc = "done" /\ log0 # <<>> /\ system_message # NoMessage
  /\ ToolIterations = max_iterations

\* ------------------------------------------------------------------ C2

\* C2: a turn emits at most one Done event; when it has, Done is the last
\* event, it carries the assistant message that is the last message of the
\* log, and the log already holds the turn's user message before it; a turn
\* that ended normally has emitted Done.
C2_OneDoneLastAfterCommit ==
  /\ DoneCount <= 1
  /\ pc = "done" => DoneCount = 1
  /\ DoneCount = 1 =>
       /\ LastOf(events).type = "done"
       /\ Len(messages) >= Len(log0) + 2
       /\ LastOf(events).message = LastOf(messages)
       /\ LastOf(messages).role = "assistant"
       /\ messages[Len(messages) - 1] = user_message

\* a Done that carries an answer, after other events
C2_Witness ==
  /\ pc = "done" /\ Len(events) > 2
  /\ LastOf(events).type = "done"
  /\ LastOf(events).message.content # <<>>

\* ------------------------------------------------------------------ C3

\* C3: a turn whose caller stays connected, and whose provider and tool
\* calls return or fail, ends, and it ends with exactly one terminal event:
\* Done as the last event and no Error, or Error as the last event and no
\* Done; only a turn whose caller disconnected ends with neither.
C3_ExactlyOneTerminalEvent ==
  /\ [](/\ TerminalCount <= 1
        /\ pc = "done" => (DoneCount = 1 /\ LastOf(events).type = "done")
        /\ pc = "error" => (ErrorCount = 1 /\ LastOf(events).type = "error")
        /\ pc = "cancelled" => disconnected
        /\ TerminalCount = 1 => pc \in {"done", "error"})
  /\ (InFlight ~> (pc \in {"done", "error"} \/ disconnected))

\* a connected turn that ended with Error after a tool iteration, when a
\* provider request failed
C3_Witness ==
  /\ pc = "error" /\ ~disconnected
  /\ ToolIterations > 0
  /\ FailedAt(Len(requests))

\* ------------------------------------------------------------------ C4

Rejected ==
  /\ request # NoRequest
  /\ \/ ~(request.session_id = SessionId /\ request.user_id = Owner)
     \/ status # "active"

\* C5: a turn on a session that is not active or does not exist is rejected
\* before any work: the only event is one Error, no user message was
\* created or emitted, no provider request was issued, no tool was run and
\* nothing was persisted.
C5_RejectedBeforeAnyWork ==
  Rejected =>
    /\ pc = "error"
    /\ Len(events) = 1 /\ events[1].type = "error"
    /\ user_message = NoMessage
    /\ requests = <<>> /\ provider_events = <<>> /\ tool_runs = 0
    /\ messages = log0 /\ total_messages = Len(log0)

\* the owner's turn on their analyzed session was rejected
C5_Witness ==
  /\ status = "analyzed" /\ messages # <<>>
  /\ request = [session_id |-> SessionId, user_id |-> Owner]
  /\ pc = "error"

\* ------------------------------------------------------------------ C6

AnyRequestFailed == \E i \in 1..Len(requests) : FailedAt(i)

\* C6 as the specification states it: once a provider request of the turn
\* has failed, whatever the provider, a turn that got to its end has ended
\* with one Error, no Done and nothing persisted.
C6_AnyFailureAborts ==
  (AnyRequestFailed /\ pc \in {"committed", "done", "error"}) =>
    /\ pc = "error"
    /\ ErrorCount = 1 /\ DoneCount = 0
    /\ messages = log0

\* the failed requests that abort the turn: any request of the OpenAI,
\* Anthropic and Google providers, the plain streaming request of OpenRouter
Fatal(i) ==
  FailedAt(i) /\ (requests[i].kind = "stream" \/ provider # "openrouter")

\* C6: a failed request of the OpenAI, Anthropic or Google provider, and a
\* failed plain streaming request of the OpenRouter provider, aborts the
\* turn at once: it is the turn's last request, one Error is the last
\* event, there is no Done and nothing is persisted.  A failed tool-bound
\* request of the OpenRouter provider does not abort the turn: the provider
\* goes on to one plain streaming request, the last request of the turn.
C6_FailureAbortsUnlessFallback ==
  \A i \in 1..Len(requests) :
    /\ Fatal(i) =>
         /\ i = Len(requests)
         /\ pc = "error"
         /\ ErrorCount = 1 /\ DoneCount = 0 /\ LastOf(events).type = "error"
         /\ messages = log0 /\ total_messages = Len(log0)
    /\ (FailedAt(i) /\ ~Fatal(i)) =>
         /\ i = Len(requests) => pc \in {"stream", "cancelled"}
         /\ i < Len(requests) =>
              (i + 1 = Len(requests) /\ requests[i + 1].kind = "stream")

\* an OpenRouter turn whose tool-bound request failed after a tool
\* iteration, and whose plain streaming request failed too
C6_Witness ==
  /\ provider = "openrouter" /\ pc = "error"
  /\ Len(requests) = 3
  /\ requests[2].kind = "tools" /\ FailedAt(2)
  /\ requests[3].kind = "stream" /\ FailedAt(3)

\* ------------------------------------------------------------------ C7

\* what the turn had issued and run when the caller went away is all it
\* has issued and run, and the log is the log the turn found
NothingSinceDisconnect ==
  /\ Len(requests) = at_disconnect.requests
  /\ tool_runs = at_disconnect.tool_runs
  /\ messages = log0

\* C7 as the specification states it: after a disconnect at any point
\* before Done, no provider request is issued, no tool is run and the log
\* is left unchanged.
C7_DisconnectStopsAtOnce == disconnected => NothingSinceDisconnect

\* C7: a disconnect that finds the turn suspended (an event handed to the
\* transport, a provider response awaited) stops it there: no provider
\* request and no tool run follow and the log is left unchanged.  A turn
\* that was cancelled has persisted nothing and emitted neither Done nor
\* Error.  The log changes only by the commit of the complete exchange,
\* which a disconnect that arrives while the task is running does not stop.
C7_DisconnectStopsAtSuspension ==
  /\ (disconnected /\ at_disconnect.suspended) => NothingSinceDisconnect
  /\ pc = "cancelled" => (disconnected /\ messages = log0 /\ TerminalCount = 0)
  /\ messages # log0 =>
       /\ pc \in {"committed", "done"}
       /\ LastOf(messages) = assistant_message
       /\ assistant_message.content = full_content

\* the caller went away in the middle of the answer of a turn that had run
\* a tool, and the turn was cancelled
C7_Witness ==
  /\ pc = "cancelled" /\ at_disconnect.suspended
  /\ tool_runs > 0 /\ full_content # <<>> /\ chunks # <<>>

\* ------------------------------------------------------------------ C8

FirstResponseIsText ==
  /\ requests # <<>>
  /\ requests[1].kind = "tools" /\ requests[1].outcome = "text"

\* the positions of the task inside the loop
InLoop == pc \in {"loop", "awaiting", "tool_call", "tool_run", "tool_append"}

\* C8: when the model's first response has no tool call, the turn issues
\* exactly one provider request, no tool event is yielded or emitted, no
\* tool is run, and the loop is over.
C8_TextAnswerEndsLoop ==
  FirstResponseIsText =>
    /\ Len(requests) = 1
    /\ iteration = 1
    /\ \A i \in 1..Len(provider_events) : provider_events[i].type = "chunk"
    /\ \A i \in 1..Len(events) : events[i].type # "rag_search"
    /\ tool_runs = 0
    /\ ~InLoop

\* a turn answered with text at once and ended with Done
C8_Witness ==
  /\ FirstResponseIsText /\ pc = "done"
  /\ full_content # <<>>

\* ------------------------------------------------------------------ C9

\* every response of the turn so far requested a tool
AlwaysToolCalls ==
  /\ requests # <<>>
  /\ \A i \in 1..Len(requests) :
       requests[i].kind = "tools" /\ requests[i].outcome = "tool_calls"

\* C9: a turn never issues more than max_iterations tool-bound requests;
\* when every response requested a tool, the loop ends after exactly
\* max_iterations requests and the last event of the provider is the chunk
\* with the limit-reached notice.
C9_LoopStopsAtCap ==
  /\ Len(ToolRequests) <= max_iterations
  /\ iteration <= max_iterations
  /\ (AlwaysToolCalls /\ pc \in {"after_loop", "persist", "committed", "done"}) =>
       Len(requests) = max_iterations
  /\ (AlwaysToolCalls /\ pc \in {"persist", "committed", "done"}) =>
       LastOf(provider_events) = ChunkEvent(MaxIterationsNotice)

\* a turn whose every response requested a tool ended with Done, the notice
\* being the last chunk the caller was sent
C9_Witness ==
  /\ AlwaysToolCalls /\ pc = "done"
  /\ Len(requests) = max_iterations
  /\ events[Len(events) - 1].content = MaxIterationsNotice

\* ------------------------------------------------------------------ C10

\* the tool calls the model has requested in this history
CallsOf(history) ==
  UNION { { history[i].tool_calls[j] : j \in 1..Len(history[i].tool_calls) } :
          i \in 1..Len(history) }

\* the text of the error message of a failed call
ExpectedError(call) ==
  IF call.name \in {"refine_prompt", "semantic_search"}
  THEN <<"Error executing tool: ", ErrorText(call.name)>>
  ELSE <<"Error: Tool '", call.name, "' not found">>

\* the history holds, after the response that requested it, the error
\* tool-result message of the call with this id
HasErrorMessage(history, id) ==
  \E call \in CallsOf(history) :
    /\ call.id = id
    /\ \E i \in 1..Len(history) :
         /\ history[i].role = "tool"
         /\ history[i].tool_call_id = id
         /\ history[i].content = ExpectedError(call)

\* C10: a tool call that names no registered tool, or whose executor
\* raises, does not abort the turn: the step that handles it emits no event
\* to the caller and stays in the loop; its error tool-result message is in
\* the running history from then on, and in the history of every provider
\* request issued after it; and the turn still ends.
C10_FailedToolCallIsReported ==
  /\ [](\A id \in bad_calls : HasErrorMessage(langchain_messages, id))
  /\ [](pc = "awaiting" => \A id \in bad_calls : HasErrorMessage(last_request, id))
  /\ [][(bad_calls' # bad_calls /\ bad_calls' # {}) =>
          (pc' \in {"loop", "tool_call"} /\ events' = events)]_vars
  /\ (bad_calls # {} ~> pc \in Ended)

\* the second request of a turn is out with the error message of an
\* unregistered tool in its history
C10_Witness ==
  /\ pc = "awaiting" /\ iteration = 2
  /\ bad_calls # {}
  /\ \E call \in CallsOf(last_request) :
       call.name = "lookup_grades" /\ call.id \in bad_calls

\* ------------------------------------------------------------------ C11

\* the events of the provider and of the turn that report a tool
ToolEventTypes ==
  {"tool_call", "tool_result", "rag_search", "refine_prompt",
   "rag_search_result", "refine_prompt_result"}

NoToolWork ==
  /\ ToolRequests = <<>>
  /\ \A i \in 1..Len(provider_events) : provider_events[i].type \notin ToolEventTypes
  /\ \A i \in 1..Len(events) : events[i].type # "rag_search"
  /\ tool_runs = 0

\* the OpenRouter model's name holds no marker of the allowlist
OutsideAllowlist ==
  /\ provider = "openrouter"
  /\ model_name \cap {"llama", "qwen", "mistral", "mixtral", "deepseek"} = {}

\* C11 as the specification states it: an OpenRouter model whose name is not
\* in the allowlist gets no tool-bound request and no tool event.
C11_OutsideAllowlistNoTools == (OutsideAllowlist /\ use_rag) => NoToolWork

\* C11: for the OpenRouter provider and a model name that holds a marker of
\* the blocked list (phi) and none of the allowlist, a turn with use_rag
\* issues no tool-bound request, yields and emits no tool event and runs no
\* tool; its only request is one plain streaming request, and the turn ends
\* with Done when that stream and the commit succeed.  A name in neither
\* list is tried with tools.
C11_BlockedModelStreamsPlainly ==
  (OutsideAllowlist /\ "phi" \in model_name /\ use_rag) =>
    /\ NoToolWork
    /\ Len(requests) <= 1
    /\ \A i \in 1..Len(requests) : requests[i].kind = "stream"
    /\ pc = "error" =>
         (Rejected \/ FailedAt(Len(requests)) \/ assistant_message # NoMessage)
    /\ pc = "done" => (requests = <<[kind |-> "stream", outcome |-> "streamed"]>>
                       /\ DoneCount = 1)

\* a use_rag turn of a phi model ended with Done and a streamed answer
C11_Witness ==
  /\ provider = "openrouter" /\ model_name = {"phi"}
  /\ use_rag /\ pc = "done" /\ full_content # <<>>
  /\ LastOf(events).type = "done"

\* ------------------------------------------------------------------ C12

\* the processed chunks of the corpus whose similarity reaches t
Passing(rows, t) ==
  { rows[i] : i \in { j \in 1..Len(rows) :
      rows[j].status = "PROCESSED" /\ rows[j].similarity_score >= t } }

SearchReturned == lib_op.name = "semantic_search" /\ ~lib_out.raised

\* C12: semantic_search(q, top_k = k, similarity_threshold = t) with k >= 1
\* and t in [0, 1] returns at most k results, each of similarity at least t,
\* in descending order of similarity, and they are the k most similar of the
\* chunks that pass the threshold.
C12_SearchReturnsTopKAboveThreshold ==
  SearchReturned =>
    LET res  == lib_out.results
        pass == Passing(corpus, lib_op.threshold)
    IN  /\ Len(res) <= lib_op.top_k
        /\ \A i \in 1..Len(res) : res[i].similarity_score >= lib_op.threshold
        /\ \A i, j \in 1..Len(res) :
             i < j => res[i].similarity_score >= res[j].similarity_score
        /\ Len(res) = Min(lib_op.top_k, Cardinality(pass))
        /\ \A i \in 1..Len(res) : res[i] \in pass
        /\ \A c \in pass :
             (\A i \in 1..Len(res) : res[i] # c) =>
               \A i \in 1..Len(res) : res[i].similarity_score >= c.similarity_score

\* ------------------------------------------------------------------ C13

PairOf(x) == <<x.document_id, x.page>>

\* the place where a (document_id, page) pair first appears in a list
FirstSeen(list, pair) ==
  CHOOSE k \in 1..Len(list) :
    PairOf(list[k]) = pair /\ \A m \in 1..(k - 1) : PairOf(list[m]) # pair

\* C13: extract_sources returns no two entries with the same
\* (document_id, page) pair, an entry for every pair of the input, and the
\* entries in the order in which their pairs first appear in the input.
C13_SourcesUniqueInFirstSeenOrder ==
  lib_op.name = "extract_sources" =>
    LET src == lib_out.sources
        inp == lib_op.input
    IN  /\ \A i, j \in 1..Len(src) : i # j => PairOf(src[i]) # PairOf(src[j])
        /\ \A k \in 1..Len(inp) : \E i \in 1..Len(src) : PairOf(src[i]) = PairOf(inp[k])
        /\ \A i \in 1..Len(src) : \E k \in 1..Len(inp) : PairOf(inp[k]) = PairOf(src[i])
        /\ \A i, j \in 1..Len(src) :
             i < j => FirstSeen(inp, PairOf(src[i])) < FirstSeen(inp, PairOf(src[j]))

\* chunks of two pages of one document around a chunk of a page already seen
C13_Witness ==
  /\ lib_op.name = "extract_sources"
  /\ Len(lib_op.input) = 3 /\ Len(lib_out.sources) = 2
  /\ lib_out.sources[1].document_id = lib_out.sources[2].document_id
  /\ PairOf(lib_op.input[1]) = PairOf(lib_op.input[2])

\* ------------------------------------------------------------------ C14

\* the sources of the chunks the Retriever holds for the question of a tool
\* call, under the stored configuration
RetrieverSources ==
  extract_sources(semantic_search(corpus,
                                  ClampTopK(config.default_top_k, config.max_top_k),
                                  ToolThreshold(config)))

\* the event of a semantic_search execution that returned
IsSearchResult(pe) ==
  /\ pe.type \in {"tool_result", "rag_search_result"}
  /\ pe.tool_name = "semantic_search" /\ ~pe.error

\* the sources of the searches of the turn, one after the other
RECURSIVE SourcesDue(_)
SourcesDue(pes) ==
  IF pes = <<>> THEN <<>>
  ELSE (IF IsSearchResult(Head(pes)) THEN RetrieverSources ELSE <<>>)
       \o SourcesDue(Tail(pes))

EventVocabulary == {"tool_call", "tool_result", "chunk"}

\* the type provider p gives to what the event pe reports
TypeUnder(p, pe) ==
  IF pe.tool_name = "" THEN "chunk"
  ELSE IF pe.error THEN ToolErrorType(p, pe.tool_name)
  ELSE IF pe.content = <<>> THEN ToolCallType(p, pe.tool_name)
  ELSE ToolResultType(p, pe.tool_name)

\* C15: for the same model responses and tool outcomes the four providers
\* emit the same sequence of event types, and every type is one of
\* tool_call, tool_result and chunk.
C15_ProvidersEmitSameEventTypes ==
  \A i \in 1..Len(provider_events) :
    /\ provider_events[i].type \in EventVocabulary
    /\ \A p \in Providers : TypeUnder(p, provider_events[i]) = provider_events[i].type

\* ------------------------------------------------------------------ C16

\* the call cannot succeed: no question, a top_k that is no integer, or a
\* Retriever that fails
SearchMustFail ==
  \/ lib_op.args.query # "text"
  \/ lib_op.args.top_k.kind = "text"
  \/ lib_op.outcome # "results"

\* C16: the semantic_search tool never raises; for every argument map and
\* every outcome of the Retriever it returns a result, and on a failure the
\* result is {results: [], sources: [], count: 0, error}.
C16_SearchToolNeverRaises ==
  lib_op.name = "tool" =>
    /\ ~lib_out.raised
    /\ SearchMustFail => lib_out.error # ""
    /\ lib_out.error # "" =>
         lib_out.results = <<>> /\ lib_out.sources = <<>> /\ lib_out.count = 0

\* ------------------------------------------------------------------ C17

\* the provider reported the run of the call as a result that leaves the
\* prompt as it was
ReportedUnrefined(id) ==
  \E i \in 1..Len(provider_events) :
    /\ provider_events[i].tool_id = id
    /\ provider_events[i].tool_name = "refine_prompt"
    /\ ~provider_events[i].error
    /\ provider_events[i].content = <<"text", "text", "failure">>

\* C17: when the auxiliary completion of refine_prompt fails, the tool
\* returns a result whose original and refined fields are the input prompt
\* and whose success flag is false; nothing is raised, and the step that ran
\* the tool leaves the turn running.
C17_FailedRefinementIsNotFatal ==
  /\ [](\A id \in failed_runs : ReportedUnrefined(id) /\ id \notin bad_calls)
  /\ [][failed_runs' \ failed_runs # {} => pc' \notin Ended]_vars

\* a turn that reached Done after a refinement failed
C17_Witness ==
  /\ pc = "done" /\ failed_runs # {}
  /\ DoneCount = 1

\* ------------------------------------------------------------------ C18

\* the tool is called with a question and with a top_k that is an integer
\* or absent
ValidToolCall ==
  /\ lib_op.name = "tool" /\ lib_op.args.query = "text"
  /\ lib_op.args.top_k.kind # "text"

\* the top_k the call asks for
RequestedTopK ==
  IF lib_op.args.top_k.kind = "none" THEN config.default_top_k
  ELSE lib_op.args.top_k.value

\* C18: executed with a valid query, the semantic_search tool calls the
\* Retriever exactly once, with min_similarity = Config.similarity_threshold
\* - 0.05 and with top_k = the requested top_k (Config.default_top_k when
\* none is given) clamped to at most Config.max_top_k.
C18_ToolCallsRetrieverOnce ==
  ValidToolCall =>
    lib_out.retriever_calls =
      <<RetrieverCall(Min(RequestedTopK, config.max_top_k),
                      config.similarity_threshold - ThresholdRelaxation)>>

\* ------------------------------------------------------------------ C19

\* a search through the direct endpoint or through the tool that returned
SearchAnswered == lib_op.name \in {"endpoint", "tool"} /\ ~lib_out.raised

\* C19: whatever top_k the caller requests, through the direct search
\* endpoint or through the tool, the search returns no more than
\* Config.max_top_k results.
C19_ResultsWithinMaxTopK ==
  SearchAnswered => Len(lib_out.results) <= config.max_top_k

\* ------------------------------------------------------------------ C20

\* C20: the cap of the agentic loop is the tool-calling max-iterations value
\* of the stored configuration: after an administrator has set it to n, a
\* turn whose every response requests a tool is stopped after exactly n
\* provider requests.
C20_LoopCapIsStoredValue ==
  (AlwaysToolCalls /\ pc \in {"after_loop", "persist", "committed", "done"}) =>
    Len(requests) = config.tool_calling_max_iterations

\* ------------------------------------------------------------------ C21

SystemCount(context) == Len(SelectSeq(context, LAMBDA m : m.role = "system"))

\* the context without its leading system message
AfterSystem(context) ==
  IF context # <<>> /\ context[1].role = "system" THEN Tail(context) ELSE context

\* the log the turn started from, role for role
HistoryOf(log) == [i \in 1..Len(log) |-> Ctx(log[i].role, log[i].content)]

\* C21: the message list built for the model holds at most one system
\* message, which is its first element and is there only if a prompt section
\* is non-empty; the other elements are the history of the session in
\* chronological order (and then the new user message).
C21_ContextHasOneLeadingSystemMessage ==
  (InFlight /\ conversation_context # <<>>) =>
    /\ SystemCount(conversation_context) <= 1
    /\ \A i \in 2..Len(conversation_context) : conversation_context[i].role # "system"
    /\ conversation_context[1].role = "system" <=> SystemContent(prompt_fields) # <<>>
    /\ AfterSystem(conversation_context)
         \in {HistoryOf(log0), Append(HistoryOf(log0), Ctx("user", user_message.content))}

\* ------------------------------------------------------------------ C22

\* the number of messages ahead of the exchanges: the stored system message
LeadOf(log) == IF log # <<>> /\ log[1].role = "system" THEN 1 ELSE 0

\* C22: after any sequence of turns, whatever their ends, the log of the
\* session holds at most one system message, which is its first element; the
\* rest is user message / assistant message pairs, and total_messages is the
\* length of the log.
C22_LogIsSystemThenPairs ==
  /\ \A i \in 2..Len(messages) : messages[i].role # "system"
  /\ (Len(messages) - LeadOf(messages)) % 2 = 0
  /\ \A i \in (LeadOf(messages) + 1)..Len(messages) :
       messages[i].role = IF (i - LeadOf(messages)) % 2 = 1 THEN "user" ELSE "assistant"
  /\ total_messages = Len(messages)

\* a turn was cancelled on a session that holds an exchange after its
\* system message
C22_Witness ==
  /\ pc = "cancelled" /\ events # <<>>
  /\ Len(messages) = 3 /\ messages[1].role = "system"

\* ------------------------------------------------------------------ C23

\* the provider has emitted the chunk with the limit-reached notice
NoticeEmitted ==
  \E i \in 1..Len(provider_events) :
    provider_events[i] = ChunkEvent(MaxIterationsNotice)

\* a response of the turn was a plain-text answer
TextAnswered == \E i \in 1..Len(requests) : requests[i].outcome = "text"

\* C23: the limit-reached notice is emitted only when the loop ended at the
\* cap without a plain-text answer; a turn in which the model answered with
\* text on some iteration, the one numbered max_iterations included, emits
\* no notice.
C23_NoticeOnlyWithoutTextAnswer == NoticeEmitted => ~TextAnswered

\* ------------------------------------------------------------------ C24

\* the tool events the caller was sent
ToolEventsSent == SelectSeq(events, LAMBDA e : e.type = "rag_search")

\* the tool calls of the turn that the loop is through with
CallsHandled == (next_id - 1) - Len(tool_calls)

\* C24: for every tool call of a model response, whether the tool returns,
\* raises or is not registered, the caller is sent one event that the tool
\* was invoked and then one that it completed, before the event of the next
\* call and before the next provider request.
C24_EveryCallInvokedThenCompleted ==
  /\ \A i \in 1..Len(ToolEventsSent) :
       ToolEventsSent[i].status = IF i % 2 = 1 THEN "searching" ELSE "completed"
  /\ pc \in {"tool_call", "loop", "awaiting"} =>
       Len(ToolEventsSent) = 2 * CallsHandled

\* ------------------------------------------------------------------ C25

\* the identifiers of the tool-result messages of a history, in its order
RECURSIVE ToolIds(_)
ToolIds(history) ==
  IF history = <<>> THEN <<>>
  ELSE (IF Head(history).role = "tool" THEN <<Head(history).tool_call_id>> ELSE <<>>)
       \o ToolIds(Tail(history))

\* the tool calls the model has requested in a history
RequestedCalls(history) ==
  UNION { { history[i].tool_calls[k] : k \in 1..Len(history[i].tool_calls) } :
            i \in { j \in 1..Len(history) : history[j].role = "ai" } }

Outstanding == Len(SelectSeq(requests, LAMBDA r : r.outcome = "pending"))

\* the calls whose tool has been looked up and, if registered, run
CallsRun == CallsHandled + (IF pc = "tool_append" THEN 1 ELSE 0)

\* C25: within a turn at most one model request is outstanding; every tool
\* call of a response is executed once and its tool-result message, carrying
\* the identifier of the call, is in the history before the next request is
\* issued; the tool-result messages are in the order of the requested calls.
C25_LoopIsSequential ==
  /\ Outstanding <= 1
  /\ InFlight =>
       /\ Outstanding = 1 <=> pc \in {"awaiting", "streaming"}
       /\ ToolIds(langchain_messages) = [i \in 1..CallsHandled |-> i]
       /\ tool_runs = Cardinality({ c \in RequestedCalls(langchain_messages) :
                                      IsRegistered(c.name) /\ c.id <= CallsRun })
  /\ pc = "awaiting" =>
       /\ ToolIds(last_request) = [i \in 1..(next_id - 1) |-> i]
       /\ \A c \in RequestedCalls(last_request) : c.id <= next_id - 1

\* a request issued after a response with two tool calls was worked off
C25_Witness ==
  /\ pc = "awaiting" /\ Len(requests) = 2
  /\ ToolIds(last_request) = <<1, 2>> /\ tool_runs = 2

\* ------------------------------------------------------------------ C26

Terminal(e) == e.type \in {"done", "error"}

Accepted == events # <<>> /\ events[1].type = "user_message"

\* C26: in an accepted turn the user message is the first event and is sent
\* before any request to the provider; every tool event precedes the first
\* text chunk and none follows a chunk; a terminal done or error event comes
\* after every other event.
C26_EventsInFixedOrder ==
  /\ requests # <<>> => Accepted
  /\ Accepted =>
       /\ \A i \in 2..Len(events) : events[i].type # "user_message"
       /\ \A i, j \in 1..Len(events) :
            i < j /\ events[i].type = "chunk" => events[j].type # "rag_search"
       /\ \A i \in 1..(Len(events) - 1) : ~Terminal(events[i])
       /\ pc \in {"done", "error"} => Terminal(events[Len(events)])

\* a finished turn with tool events, text chunks and the done event
C26_Witness ==
  /\ pc = "done" /\ Accepted /\ Len(ToolEventsSent) = 2
  /\ \E i \in 1..Len(events) : events[i].type = "chunk"
  /\ events[Len(events)].type = "done"

\* ------------------------------------------------------------------ C27

SearchRan == lib_op.name \in {"semantic_search", "endpoint"} /\ ~lib_out.raised

Unindexed(rows) == { i \in 1..Len(rows) : rows[i].status # "PROCESSED" }

\* C27: search returns no chunk of a document whose status is not PROCESSED,
\* whatever the similarity of the chunk, the top_k and the threshold.
C27_SearchSkipsUnindexedDocuments ==
  SearchRan => Unindexed(lib_out.results) = {}

\* a search over a corpus whose most similar chunk belongs to a document that
\* is still being indexed, with room for it in the result
C27_Witness ==
  /\ SearchRan /\ Unindexed(corpus) # {}
  /\ \A i \in 1..Len(corpus) : \E j \in Unindexed(corpus) :
       corpus[j].similarity_score >= corpus[i].similarity_score
  /\ lib_op.top_k = 3 /\ lib_op.threshold = 0
  /\ Len(lib_out.results) = 3

\* ------------------------------------------------------------------ C28

DoneTurns == { t \in TurnIds : turns[t].pc = "done" }

\* the user message and the assistant message of a turn, next to each other
\* in the log
ExchangeStored(t) ==
  \E i \in 1..(Len(messages) - 1) :
    /\ messages[i] = turns[t].user_message
    /\ messages[i + 1] = Message("assistant", turns[t].full_content, <<>>)

ExchangesStored == (Len(messages) - SystemCount(messages)) \div 2

\* C28: when two turns on the same session overlap and both end with the
\* done event, the log holds the user and assistant pair of both turns and at
\* most one system message: no turn that reported done has lost its exchange.
C28_OverlappingTurnsKeepBothExchanges ==
  /\ SystemCount(messages) <= 1
  /\ \A t \in DoneTurns : ExchangeStored(t)
  /\ ExchangesStored >= Cardinality(DoneTurns)

\* ------------------------------------------------------------------ C30

\* C30: get_provider(model_id, api_key = k) returns a provider configured
\* with the key k of that call, or with the configured default key when the
\* call gives none.
C30_ProviderHasTheCallersKey ==
  got # NoCall /\ ~got.raised =>
    got.provider.api_key = KeyFor(got.api_key, got.provider.provider_name)

\* ------------------------------------------------------------------ C29

\* the turn was answered on the tool-calling path: its last request was bound
\* to the tools and came back as plain text
AnsweredWithTools ==
  requests # <<>> /\ requests[Len(requests)].kind = "tools"
                 /\ requests[Len(requests)].outcome = "text"

\* C29: in a turn that ends with done on the tool-calling path, the content
\* of the stored assistant message is the text of the model's final
\* plain-text response, character for character: splitting the answer into
\* word chunks and putting the chunks together again loses nothing.
C29_StoredAnswerIsTheModelsText ==
  pc = "done" /\ AnsweredWithTools =>
    /\ assistant_message.content = answered
    /\ messages[Len(messages)].content = answered

====
